---- MODULE Spec2Model ----
(***************************************************************************)
(* Model of the task list component (src/src/components/TodoList.tsx, the  *)
(* current revision at lines 174-704) and of its edit dialog               *)
(* (src/unnamed/part_000).  The state is the component's useState cells    *)
(* and the localStorage slot "todos"; there is one action per event        *)
(* handler and one per effect.                                             *)
(***************************************************************************)
EXTENDS Integers, Sequences, FiniteSets, TLC

\* ---------------------------------------------------------------- bounds
MaxLen == 2          \* longest text typed into an input field
MaxTime == 2         \* last value of the clock (Date.now())
MaxId == 2           \* number of identifiers crypto.randomUUID() hands out
MaxDeadline == 1     \* latest deadline picked in a calendar
MaxNoteLen == 1      \* longest text typed into the notes field
NumPriorities == 2   \* how many of the priorities are picked in a select
NumCategories == 2   \* how many of the categories are picked in a select
MaxEvents == 5       \* number of user events (handler calls) in a run

\* ------------------------------------------------------------ value sets
Chars == {" ", "a"}

Texts == UNION {[1..n -> Chars] : n \in 0..MaxLen}

Times == 1..MaxTime

NoteTexts == UNION {[1..n -> Chars] : n \in 0..MaxNoteLen}

Deadlines == 1..MaxDeadline

\* type Priority, type Category
PriorityList == <<"medium", "high", "low">>

CategoryList == <<"personal", "work", "shopping", "health", "other">>

Min(a, b) == IF a < b THEN a ELSE b

Priorities == {PriorityList[i] : i \in 1..Min(NumPriorities, Len(PriorityList))}

Categories == {CategoryList[i] : i \in 1..Min(NumCategories, Len(CategoryList))}

\* An optional value (a field that may be undefined) is the empty set or a
\* singleton.
Absent == {}

Some(v) == {v}

Opt(S) == {Absent} \cup {Some(v) : v \in S}

\* ------------------------------------------------------------- String.trim
RECURSIVE TrimLeft(_)
TrimLeft(s) ==
  IF s = <<>> THEN <<>>
  ELSE IF Head(s) = " " THEN TrimLeft(Tail(s)) ELSE s

RECURSIVE TrimRight(_)
TrimRight(s) ==
  IF s = <<>> THEN <<>>
  ELSE IF s[Len(s)] = " " THEN TrimRight(SubSeq(s, 1, Len(s) - 1)) ELSE s

Trim(s) == TrimRight(TrimLeft(s))

\* ------------------------------------------------------------------ state
VARIABLES
  todos,        \* useState<Todo[]>([])
  newTodo,      \* draft text of the add form
  deadline,     \* draft deadline of the add form (optional)
  priority,     \* draft priority of the add form
  category,     \* draft category of the add form
  editingTodo,  \* the Todo object handed to the edit dialog, or Absent
  slot,         \* localStorage item "todos"
  pending,      \* state update queued by the load effect, applied at re-render
  now,          \* Date.now()
  nextId,       \* number of identifiers generated so far, plus one
  pc,           \* "mount", "save", "render", "idle" or "crashed"
  error,        \* an exception escaped a handler or an effect
  cmd,          \* the last handler that ran, with its argument and its result
  nevents,      \* number of user events handled so far
  chosen,       \* draft fields set by the user since start or the last add
  prev,         \* todos as it was when the last user event arrived
  searchQuery,    \* text of the search field
  filterStatus,   \* "all", "active" or "completed"
  filterPriority, \* "all" or a priority
  filterCategory  \* "all" or a category

\* The query of the list view.
view == <<searchQuery, filterStatus, filterPriority, filterCategory>>

vars == <<todos, newTodo, deadline, priority, category, editingTodo, slot,
          pending, now, nextId, pc, error, cmd, nevents, chosen, prev, view>>

\* ------------------------------------------------------------- Todo values
Ids == 0..MaxId

NoId == 0 - 1

\* interface Todo: the optional fields completedAt, deadline and notes hold
\* Absent when reading them yields undefined.
Todo(id, text, completed, createdAt, completedAt, dl, prio, cat, notes) ==
  [id |-> id, text |-> text, completed |-> completed, createdAt |-> createdAt,
   completedAt |-> completedAt, deadline |-> dl, priority |-> prio,
   category |-> cat, notes |-> notes]

OptionalKeys == {"completedAt", "deadline", "notes"}

RequiredKeys == {"id", "text", "completed", "createdAt", "priority", "category"}

\* JSON.stringify of one Todo: a property whose value is undefined is left
\* out of the document, every other property is written with its value.
StringifyTodo(t) ==
  [k \in RequiredKeys \cup {o \in OptionalKeys : t[o] # Absent} |->
     IF k \in OptionalKeys THEN CHOOSE v \in t[k] : TRUE ELSE t[k]]

\* JSON.stringify(todos): the array, element by element, in order.
Stringify(ts) == [i \in 1..Len(ts) |-> StringifyTodo(ts[i])]

\* A reader that copies the fields of an older Todo interface, without notes.
ParseTodoNoNotes(o) ==
  [k \in RequiredKeys \cup OptionalKeys |->
     IF k \in OptionalKeys
       THEN (IF k \in DOMAIN o /\ k # "notes" THEN Some(o[k]) ELSE Absent)
       ELSE o[k]]

\* JSON.parse of one stored object, read through the Todo interface: a key
\* that is not in the document reads as undefined.
ParseTodo(o) ==
  [k \in RequiredKeys \cup OptionalKeys |->
     IF k \in OptionalKeys
       THEN (IF k \in DOMAIN o THEN Some(o[k]) ELSE Absent)
       ELSE o[k]]

Parse(doc) == [i \in 1..Len(doc) |-> ParseTodo(doc[i])]

\* The values localStorage.getItem("todos") can return at start: null, the
\* empty string, a string that is not JSON, or a document written by an
\* earlier session.
NullSlot == [kind |-> "null", doc |-> <<>>]

EmptySlot == [kind |-> "empty", doc |-> <<>>]

MalformedSlot == [kind |-> "malformed", doc |-> <<>>]

JsonSlot(doc) == [kind |-> "json", doc |-> doc]

StoredTodo ==
  Todo(0, <<"a">>, FALSE, 1, Absent, Some(1), "high", "work", Absent)

InitSlots ==
  {NullSlot, EmptySlot, MalformedSlot, JsonSlot(<<>>),
   JsonSlot(Stringify(<<StoredTodo>>))}

NoCmd == [op |-> "none", id |-> NoId, ret |-> "undefined"]

Cmd(op, id) == [op |-> op, id |-> id, ret |-> "undefined"]

\* ------------------------------------------------------------------- Init
Init ==
  /\ todos = <<>>
  /\ newTodo = <<>>
  /\ deadline = Absent
  /\ priority = "medium"
  /\ category = "personal"
  /\ editingTodo = Absent
  /\ slot \in InitSlots
  /\ pending = Absent
  /\ now = 1
  /\ nextId = 1
  /\ pc = "mount"
  /\ error = FALSE
  /\ cmd = NoCmd
  /\ nevents = 0
  /\ chosen = {}
  /\ prev = <<>>
  /\ searchQuery = <<>>
  /\ filterStatus = "all"
  /\ filterPriority = "all"
  /\ filterCategory = "all"

\* ---------------------------------------------------------------- effects
\* useEffect(() => { const saved = getItem("todos"); if (saved) setTodos(JSON.parse(saved)) }, [])
LoadEffect ==
  /\ pc = "mount"
  /\ IF slot.kind \in {"null", "empty"}
       THEN /\ pc' = "save"
            /\ UNCHANGED <<pending, error>>
       ELSE IF slot.kind = "malformed"
         THEN /\ pc' = "crashed"
              /\ error' = TRUE
              /\ UNCHANGED pending
         ELSE /\ pending' = Some(Parse(slot.doc))
              /\ pc' = "save"
              /\ UNCHANGED error
  /\ UNCHANGED <<todos, newTodo, deadline, priority, category, editingTodo,
                 slot, now, nextId, cmd, nevents, chosen, prev>>
  /\ UNCHANGED view

\* The save effect writing only a collection that has tasks.
SaveEffectNonEmpty ==
  /\ pc = "save"
  /\ slot' = IF todos = <<>> THEN slot ELSE JsonSlot(Stringify(todos))
  /\ pc' = IF pending # Absent THEN "render" ELSE "idle"
  /\ UNCHANGED <<todos, newTodo, deadline, priority, category, editingTodo,
                 pending, now, nextId, error, cmd, nevents, chosen, prev>>
  /\ UNCHANGED view

\* useEffect(() => { setItem("todos", JSON.stringify(todos)) }, [todos])
SaveEffect ==
  /\ pc = "save"
  /\ slot' = JsonSlot(Stringify(todos))
  /\ pc' = IF pending # Absent THEN "render" ELSE "idle"
  /\ UNCHANGED <<todos, newTodo, deadline, priority, category, editingTodo,
                 pending, now, nextId, error, cmd, nevents, chosen, prev>>
  /\ UNCHANGED view

\* The re-render that applies the state update queued during the mount
\* effects; todos changed, so the save effect runs again.
Render ==
  /\ pc = "render"
  /\ todos' = CHOOSE ts \in pending : TRUE
  /\ pending' = Absent
  /\ pc' = "save"
  /\ UNCHANGED <<newTodo, deadline, priority, category, editingTodo, slot,
                 now, nextId, error, cmd, nevents, chosen, prev>>
  /\ UNCHANGED view

\* The clock read by Date.now().
Tick ==
  /\ now < MaxTime
  /\ now' = now + 1
  /\ UNCHANGED <<todos, newTodo, deadline, priority, category, editingTodo,
                 slot, pending, nextId, pc, error, cmd, nevents, chosen, prev>>
  /\ UNCHANGED view

\* ----------------------------------------------------------- add form
\* onChange={(e) => setNewTodo(e.target.value)}
SetNewTodo(s) ==
  /\ pc = "idle"
  /\ nevents < MaxEvents
  /\ newTodo' = s
  /\ cmd' = Cmd("setNewTodo", NoId)
  /\ nevents' = nevents + 1
  /\ prev' = todos
  /\ UNCHANGED <<todos, deadline, priority, category, editingTodo, slot,
                 pending, now, nextId, pc, error, chosen>>
  /\ UNCHANGED view

\* onSelect={setDeadline}
SetDeadline(d) ==
  /\ pc = "idle"
  /\ nevents < MaxEvents
  /\ deadline' = d
  /\ cmd' = Cmd("setDeadline", NoId)
  /\ nevents' = nevents + 1
  /\ prev' = todos
  /\ chosen' = chosen \cup {"deadline"}
  /\ UNCHANGED <<todos, newTodo, priority, category, editingTodo, slot,
                 pending, now, nextId, pc, error>>
  /\ UNCHANGED view

\* onValueChange={(value: Priority) => setPriority(value)}
SetPriority(p) ==
  /\ pc = "idle"
  /\ nevents < MaxEvents
  /\ priority' = p
  /\ cmd' = Cmd("setPriority", NoId)
  /\ nevents' = nevents + 1
  /\ prev' = todos
  /\ chosen' = chosen \cup {"priority"}
  /\ UNCHANGED <<todos, newTodo, deadline, category, editingTodo, slot,
                 pending, now, nextId, pc, error>>
  /\ UNCHANGED view

\* onValueChange={(value: Category) => setCategory(value)}
SetCategory(c) ==
  /\ pc = "idle"
  /\ nevents < MaxEvents
  /\ category' = c
  /\ cmd' = Cmd("setCategory", NoId)
  /\ nevents' = nevents + 1
  /\ prev' = todos
  /\ chosen' = chosen \cup {"category"}
  /\ UNCHANGED <<todos, newTodo, deadline, priority, editingTodo, slot,
                 pending, now, nextId, pc, error>>
  /\ UNCHANGED view

\* The object literal with the identifier taken from the clock.
NewTodoTimeId(id, text, t, dl, prio, cat) ==
  Todo(t, Trim(text), FALSE, t, Absent, dl, prio, cat, Absent)

\* The object literal addTodo appends.
NewTodo(id, text, t, dl, prio, cat) ==
  Todo(id, Trim(text), FALSE, t, Absent, dl, prio, cat, Absent)

\* addTodo testing the text as typed, without trimming it first.
AddTodoNoTrim ==
  /\ pc = "idle"
  /\ nevents < MaxEvents
  /\ IF newTodo # <<>>
       THEN /\ nextId <= MaxId
            /\ todos' = Append(todos, NewTodo(nextId, newTodo, now, deadline,
                                              priority, category))
            /\ newTodo' = <<>>
            /\ deadline' = Absent
            /\ priority' = "medium"
            /\ category' = "personal"
            /\ nextId' = nextId + 1
            /\ pc' = "save"
            /\ cmd' = Cmd("add", nextId)
            /\ chosen' = {}
       ELSE /\ cmd' = Cmd("add", NoId)
            /\ UNCHANGED <<todos, newTodo, deadline, priority, category,
                           nextId, pc, chosen>>
  /\ nevents' = nevents + 1
  /\ prev' = todos
  /\ UNCHANGED <<editingTodo, slot, pending, now, error>>
  /\ UNCHANGED view

\* addTodo without the reset of the draft priority and category.
AddTodoKeepDraft ==
  /\ pc = "idle"
  /\ nevents < MaxEvents
  /\ IF Trim(newTodo) # <<>>
       THEN /\ nextId <= MaxId
            /\ todos' = Append(todos, NewTodo(nextId, newTodo, now, deadline,
                                              priority, category))
            /\ newTodo' = <<>>
            /\ deadline' = Absent
            /\ UNCHANGED <<priority, category>>
            /\ nextId' = nextId + 1
            /\ pc' = "save"
            /\ cmd' = Cmd("add", nextId)
            /\ chosen' = {}
       ELSE /\ cmd' = Cmd("add", NoId)
            /\ UNCHANGED <<todos, newTodo, deadline, priority, category,
                           nextId, pc, chosen>>
  /\ nevents' = nevents + 1
  /\ prev' = todos
  /\ UNCHANGED <<editingTodo, slot, pending, now, error>>
  /\ UNCHANGED view

\* if (newTodo.trim()) { setTodos([...todos, {...}]); reset the draft }
AddTodo ==
  /\ pc = "idle"
  /\ nevents < MaxEvents
  /\ IF Trim(newTodo) # <<>>
       THEN /\ nextId <= MaxId
            /\ todos' = Append(todos, NewTodo(nextId, newTodo, now, deadline,
                                              priority, category))
            /\ newTodo' = <<>>
            /\ deadline' = Absent
            /\ priority' = "medium"
            /\ category' = "personal"
            /\ nextId' = nextId + 1
            /\ pc' = "save"
            /\ cmd' = Cmd("add", nextId)
            /\ chosen' = {}
       ELSE /\ cmd' = Cmd("add", NoId)
            /\ UNCHANGED <<todos, newTodo, deadline, priority, category,
                           nextId, pc, chosen>>
  /\ nevents' = nevents + 1
  /\ prev' = todos
  /\ UNCHANGED <<editingTodo, slot, pending, now, error>>
  /\ UNCHANGED view

\* ------------------------------------------------------ toggle and delete
\* toggleTodo stamping createdAt along with completedAt.
ToggleOneRestamp(todo, t) ==
  [todo EXCEPT !.completed = ~todo.completed,
               !.completedAt = IF ~todo.completed THEN Some(t) ELSE Absent,
               !.createdAt = t]

\* toggleTodo marking the task done instead of flipping it.
ToggleOneSticky(todo, t) ==
  [todo EXCEPT !.completed = TRUE,
               !.completedAt = IF ~todo.completed THEN Some(t) ELSE Absent]

\* toggleTodo without the clearing of completedAt.
ToggleOneKeepStamp(todo, t) ==
  [todo EXCEPT !.completed = ~todo.completed,
               !.completedAt = IF ~todo.completed THEN Some(t) ELSE todo.completedAt]

\* { ...todo, completed: !todo.completed,
\*   completedAt: !todo.completed ? Date.now() : undefined }
ToggleOne(todo, t) ==
  [todo EXCEPT !.completed = ~todo.completed,
               !.completedAt = IF ~todo.completed THEN Some(t) ELSE Absent]

\* todos.map((todo) => todo.id === id ? {...} : todo)
ToggleAll(ts, id, t) ==
  [i \in 1..Len(ts) |-> IF ts[i].id = id THEN ToggleOne(ts[i], t) ELSE ts[i]]

ToggleTodo(id) ==
  /\ pc = "idle"
  /\ nevents < MaxEvents
  /\ todos' = ToggleAll(todos, id, now)
  /\ pc' = "save"
  /\ cmd' = Cmd("toggle", id)
  /\ nevents' = nevents + 1
  /\ prev' = todos
  /\ UNCHANGED <<newTodo, deadline, priority, category, editingTodo, slot,
                 pending, now, nextId, error, chosen>>
  /\ UNCHANGED view

\* deleteTodo with the test of the filter inverted.
KeepSame(ts, id) == SelectSeq(ts, LAMBDA todo : todo.id = id)

\* todos.filter((todo) => todo.id !== id)
KeepOther(ts, id) == SelectSeq(ts, LAMBDA todo : todo.id # id)

DeleteTodo(id) ==
  /\ pc = "idle"
  /\ nevents < MaxEvents
  /\ todos' = KeepOther(todos, id)
  /\ pc' = "save"
  /\ cmd' = Cmd("delete", id)
  /\ nevents' = nevents + 1
  /\ prev' = todos
  /\ UNCHANGED <<newTodo, deadline, priority, category, editingTodo, slot,
                 pending, now, nextId, error, chosen>>
  /\ UNCHANGED view

\* ------------------------------------------------------------ edit dialog
\* onEdit={setEditingTodo}: the dialog gets the Todo object of the item.
OpenEdit(i) ==
  /\ pc = "idle"
  /\ nevents < MaxEvents
  /\ i \in 1..Len(todos)
  /\ editingTodo' = Some(todos[i])
  /\ cmd' = Cmd("openEdit", todos[i].id)
  /\ nevents' = nevents + 1
  /\ prev' = todos
  /\ UNCHANGED <<todos, newTodo, deadline, priority, category, slot, pending,
                 now, nextId, pc, error, chosen>>
  /\ UNCHANGED view

\* onClose={() => setEditingTodo(null)}
CloseEdit ==
  /\ pc = "idle"
  /\ nevents < MaxEvents
  /\ editingTodo # Absent
  /\ editingTodo' = Absent
  /\ cmd' = Cmd("closeEdit", NoId)
  /\ nevents' = nevents + 1
  /\ prev' = todos
  /\ UNCHANGED <<todos, newTodo, deadline, priority, category, slot, pending,
                 now, nextId, pc, error, chosen>>
  /\ UNCHANGED view

\* The object handleSave passes to onSave: the dialog's todo prop with the
\* five edited fields replaced.
EditedTodo(todo, text, notes, dl, prio, cat) ==
  [todo EXCEPT !.text = Trim(text),
               !.notes = IF Trim(notes) # <<>> THEN Some(Trim(notes)) ELSE Absent,
               !.deadline = dl,
               !.priority = prio,
               !.category = cat]

\* updateTodo appending the edited task when no task has its id.
UpdateAllUpsert(ts, updatedTodo) ==
  IF updatedTodo.id \in {ts[i].id : i \in 1..Len(ts)}
    THEN [i \in 1..Len(ts) |->
            IF ts[i].id = updatedTodo.id THEN updatedTodo ELSE ts[i]]
    ELSE Append(ts, updatedTodo)

\* todos.map((todo) => todo.id === updatedTodo.id ? updatedTodo : todo)
UpdateAll(ts, updatedTodo) ==
  [i \in 1..Len(ts) |-> IF ts[i].id = updatedTodo.id THEN updatedTodo ELSE ts[i]]

\* handleSave without the test of the trimmed text.
HandleSaveNoCheck(text, notes, dl, prio, cat) ==
  /\ pc = "idle"
  /\ nevents < MaxEvents
  /\ editingTodo # Absent
  /\ LET todo == CHOOSE e \in editingTodo : TRUE IN
       IF TRUE
         THEN /\ todos' = UpdateAll(todos, EditedTodo(todo, text, notes, dl, prio, cat))
              /\ editingTodo' = Absent
              /\ pc' = "save"
              /\ cmd' = Cmd("update", todo.id)
         ELSE /\ cmd' = Cmd("update", NoId)
              /\ UNCHANGED <<todos, editingTodo, pc>>
  /\ nevents' = nevents + 1
  /\ prev' = todos
  /\ UNCHANGED <<newTodo, deadline, priority, category, slot, pending, now,
                 nextId, error, chosen>>
  /\ UNCHANGED view

\* handleSave followed by updateTodo; the dialog's fields are whatever the
\* user has typed or picked by then.
HandleSave(text, notes, dl, prio, cat) ==
  /\ pc = "idle"
  /\ nevents < MaxEvents
  /\ editingTodo # Absent
  /\ LET todo == CHOOSE e \in editingTodo : TRUE IN
       IF Trim(text) # <<>>
         THEN /\ todos' = UpdateAll(todos, EditedTodo(todo, text, notes, dl, prio, cat))
              /\ editingTodo' = Absent
              /\ pc' = "save"
              /\ cmd' = Cmd("update", todo.id)
         ELSE /\ cmd' = Cmd("update", NoId)
              /\ UNCHANGED <<todos, editingTodo, pc>>
  /\ nevents' = nevents + 1
  /\ prev' = todos
  /\ UNCHANGED <<newTodo, deadline, priority, category, slot, pending, now,
                 nextId, error, chosen>>
  /\ UNCHANGED view

\* ------------------------------------------------------------------- Next
Next ==
  \/ LoadEffect
  \/ SaveEffect
  \/ Render
  \/ Tick
  \/ \E s \in Texts : SetNewTodo(s)
  \/ \E d \in Opt(Deadlines) : SetDeadline(d)
  \/ \E p \in Priorities : SetPriority(p)
  \/ \E c \in Categories : SetCategory(c)
  \/ AddTodo
  \/ \E id \in Ids : ToggleTodo(id)
  \/ \E id \in Ids : DeleteTodo(id)
  \/ \E i \in 1..MaxId + 1 : OpenEdit(i)
  \/ CloseEdit
  \/ \E text \in Texts, notes \in NoteTexts, d \in Opt(Deadlines),
        p \in Priorities, c \in Categories : HandleSave(text, notes, d, p, c)

Spec == Init /\ [][Next]_vars

\* =============================================================== list view
\* What a render derives from todos and from the query: the displayed list
\* and the four statistics.

\* ------------------------------------------------------------ view bounds
MaxViewTodos == 3    \* longest collection whose order and statistics are examined
MaxFilterTodos == 2  \* longest collection examined under the four filters
MaxHalfHours == 2    \* longest time from creation to completion, in half hours

\* 1000 * 60 * 60, the milliseconds of one hour
MsPerHour == 1000 * 60 * 60

HalfHour == MsPerHour \div 2

\* The clock while a view is examined: later than every completion time.
ViewNow == (MaxHalfHours + 1) * MsPerHour

\* Deadlines just before, at and just after the clock.
ViewDeadlines == {ViewNow - 1, ViewNow, ViewNow + 1}

\* The priorities and the categories met in the examined collections.
AllPriorities == {PriorityList[i] : i \in 1..Len(PriorityList)}

ViewPriorities == {"high", "medium"}

ViewCategories == {"personal", "work"}

\* Texts and queries of the search: two letters, in both cases.
ViewTexts == {<<"a", "B">>, <<"B", "a">>}

ViewQueries == {<<>>, <<"A", "b">>}

FilterStatuses == {"all", "active", "completed"}

\* ---------------------------------------------------------- filter inputs
Idle == <<todos, newTodo, deadline, priority, category, editingTodo, slot,
          pending, now, nextId, pc, error, cmd, nevents, chosen, prev>>

\* onChange={(e) => setSearchQuery(e.target.value)}
SetSearchQuery(q) ==
  /\ pc = "idle"
  /\ searchQuery' = q
  /\ UNCHANGED <<Idle, filterStatus, filterPriority, filterCategory>>

\* onValueChange={(value) => setFilterStatus(value)}
SetFilterStatus(s) ==
  /\ pc = "idle"
  /\ filterStatus' = s
  /\ UNCHANGED <<Idle, searchQuery, filterPriority, filterCategory>>

\* onValueChange={(value) => setFilterPriority(value)}
SetFilterPriority(p) ==
  /\ pc = "idle"
  /\ filterPriority' = p
  /\ UNCHANGED <<Idle, searchQuery, filterStatus, filterCategory>>

\* onValueChange={(value) => setFilterCategory(value)}
SetFilterCategory(c) ==
  /\ pc = "idle"
  /\ filterCategory' = c
  /\ UNCHANGED <<Idle, searchQuery, filterStatus, filterPriority>>

\* The Clear Filters button, shown while some filter is set.
ClearFilters ==
  /\ pc = "idle"
  /\ \/ searchQuery # <<>>
     \/ filterStatus # "all"
     \/ filterPriority # "all"
     \/ filterCategory # "all"
  /\ searchQuery' = <<>>
  /\ filterStatus' = "all"
  /\ filterPriority' = "all"
  /\ filterCategory' = "all"
  /\ UNCHANGED Idle

\* ------------------------------------------------------------- derivations
\* String.prototype.toLowerCase, letter by letter.
LowerChar(c) == CASE c = "A" -> "a" [] c = "B" -> "b" [] OTHER -> c

ToLowerCase(s) == [i \in 1..Len(s) |-> LowerChar(s[i])]

\* String.prototype.includes: q occurs in s at some offset.
Includes(s, q) ==
  \E k \in 0..(Len(s) - Len(q)) : SubSeq(s, k + 1, k + Len(q)) = q

\* The value of an optional number, and whether it is truthy (present and
\* not 0).
Val(o) == CHOOSE v \in o : TRUE

Truthy(o) == o # Absent /\ o # Some(0)

IsActive(t) == ~t.completed

IsCompleted(t) == t.completed

\* The search comparing the texts as they are typed.
MatchesCaseSensitive(t) ==
  IF searchQuery # <<>> /\ ~Includes(t.text, searchQuery) THEN FALSE
  ELSE IF filterPriority # "all" /\ t.priority # filterPriority THEN FALSE
  ELSE IF filterCategory # "all" /\ t.category # filterCategory THEN FALSE
  ELSE TRUE

\* The callback of the second filter of activeTodos and of completedTodos.
Matches(t) ==
  IF searchQuery # <<>>
       /\ ~Includes(ToLowerCase(t.text), ToLowerCase(searchQuery)) THEN FALSE
  ELSE IF filterPriority # "all" /\ t.priority # filterPriority THEN FALSE
  ELSE IF filterCategory # "all" /\ t.category # filterCategory THEN FALSE
  ELSE TRUE

\* const priorityOrder = { high: 0, medium: 1, low: 2 }
PriorityOrder(p) == CASE p = "high" -> 0 [] p = "medium" -> 1 [] p = "low" -> 2

\* A comparator that ignores the deadlines.
CompareNoDeadline(a, b) ==
  IF PriorityOrder(a.priority) # PriorityOrder(b.priority)
    THEN PriorityOrder(a.priority) - PriorityOrder(b.priority)
  ELSE b.createdAt - a.createdAt

\* The comparator handed to sort: negative when a goes first.
Compare(a, b) ==
  IF PriorityOrder(a.priority) # PriorityOrder(b.priority)
    THEN PriorityOrder(a.priority) - PriorityOrder(b.priority)
  ELSE IF Truthy(a.deadline) /\ Truthy(b.deadline)
    THEN Val(a.deadline) - Val(b.deadline)
  ELSE IF Truthy(a.deadline) THEN 0 - 1
  ELSE IF Truthy(b.deadline) THEN 1
  ELSE b.createdAt - a.createdAt

\* Array.prototype.sort is stable: x goes behind the last element that does
\* not compare greater than x.
RECURSIVE Insert(_, _)
Insert(sorted, x) ==
  IF sorted = <<>> THEN <<x>>
  ELSE IF Compare(sorted[Len(sorted)], x) > 0
    THEN Append(Insert(SubSeq(sorted, 1, Len(sorted) - 1), x), sorted[Len(sorted)])
  ELSE Append(sorted, x)

RECURSIVE Sort(_)
Sort(ts) ==
  IF ts = <<>> THEN <<>>
  ELSE Insert(Sort(SubSeq(ts, 1, Len(ts) - 1)), ts[Len(ts)])

\* todos.filter((t) => !t.completed).filter(...).sort(...)
ActiveOf(ts) == Sort(SelectSeq(SelectSeq(ts, IsActive), Matches))

ActiveTodos == ActiveOf(todos)

\* The completed tasks put through the sort of the active ones.
CompletedTodosSorted == Sort(SelectSeq(SelectSeq(todos, IsCompleted), Matches))

\* todos.filter((t) => t.completed).filter(...)
CompletedTodos == SelectSeq(SelectSeq(todos, IsCompleted), Matches)

DisplayedTodos ==
  IF filterStatus = "all" THEN ActiveTodos \o CompletedTodos
  ELSE IF filterStatus = "active" THEN ActiveTodos
  ELSE CompletedTodos

\* Math.round(p / q) for q > 0: the nearest integer, a half going up.
Round(p, q) == (2 * p + q) \div (2 * q)

TotalTasks == Len(todos)

CompletedCount == Len(SelectSeq(todos, IsCompleted))

\* The rate cut off with Math.floor.
CompletionRateFloor ==
  IF TotalTasks > 0 THEN (CompletedCount * 100) \div TotalTasks ELSE 0

CompletionRate ==
  IF TotalTasks > 0 THEN Round(CompletedCount * 100, TotalTasks) ELSE 0

BeforeNow(t) == ~t.completed /\ Truthy(t.deadline) /\ Val(t.deadline) < now

\* A count that takes a deadline equal to the clock for overdue.
OverdueCountInclusive ==
  Len(SelectSeq(todos, LAMBDA t : ~t.completed /\ Truthy(t.deadline)
                                   /\ Val(t.deadline) <= now))

OverdueCount == Len(SelectSeq(todos, BeforeNow))

\* TodoItem: const isOverdue = todo.deadline && todo.deadline < Date.now() && !todo.completed
IsOverdue(t) == Truthy(t.deadline) /\ Val(t.deadline) < now /\ ~t.completed

HasCompletedAt(t) == t.completed /\ Truthy(t.completedAt)

\* completed.reduce((sum, t) => sum + (t.completedAt - t.createdAt), 0)
RECURSIVE TotalTime(_)
TotalTime(ts) ==
  IF ts = <<>> THEN 0
  ELSE TotalTime(SubSeq(ts, 1, Len(ts) - 1))
         + (Val(ts[Len(ts)].completedAt) - ts[Len(ts)].createdAt)

\* The mean taken over all the tasks of the collection.
AvgOverAll(ts) ==
  LET completed == SelectSeq(ts, HasCompletedAt) IN
    IF Len(completed) = 0 THEN 0
    ELSE Round(TotalTime(completed), Len(ts) * MsPerHour)

AvgCompletionTimeOf(ts) ==
  LET completed == SelectSeq(ts, HasCompletedAt) IN
    IF Len(completed) = 0 THEN 0
    ELSE Round(TotalTime(completed), Len(completed) * MsPerHour)

AvgCompletionTime == AvgCompletionTimeOf(todos)

\* ------------------------------------------------- specifications of views
\* The i-th task of a collection built by i additions, one per millisecond;
\* k < 0 leaves it active, k >= 0 completes it k half hours after creation.
ViewTodo(i, text, k, dl, prio, cat) ==
  Todo(i, text, k >= 0, i, IF k >= 0 THEN Some(i + k * HalfHour) ELSE Absent,
       dl, prio, cat, Absent)

\* What is drawn for each task of a collection: completion, deadline and
\* priority for the order of the list; completion time and deadline for the
\* statistics; text, completion, priority and category for the filters.
SortChoices == {0 - 1, 1} \X Opt({ViewNow - 1, ViewNow}) \X AllPriorities

StatChoices == ((0 - 1)..MaxHalfHours) \X Opt(ViewDeadlines)

FilterChoices == ViewTexts \X {0 - 1, 1} \X ViewPriorities \X ViewCategories

SortCollection(n, f) ==
  [i \in 1..n |-> ViewTodo(i, <<"a">>, f[i][1], f[i][2], f[i][3], "personal")]

StatCollection(n, f) ==
  [i \in 1..n |-> ViewTodo(i, <<"a">>, f[i][1], f[i][2], "medium", "personal")]

FilterCollection(n, f) ==
  [i \in 1..n |-> ViewTodo(i, f[i][1], f[i][2], Absent, f[i][3], f[i][4])]

\* The component at rest with the collection ts in memory and in the slot.
AtRest(ts) ==
  /\ todos = ts
  /\ newTodo = <<>>
  /\ deadline = Absent
  /\ priority = "medium"
  /\ category = "personal"
  /\ editingTodo = Absent
  /\ slot = JsonSlot(Stringify(ts))
  /\ pending = Absent
  /\ now = ViewNow
  /\ nextId = Len(ts) + 1
  /\ pc = "idle"
  /\ error = FALSE
  /\ cmd = NoCmd
  /\ nevents = 0
  /\ chosen = {}
  /\ prev = ts
  /\ searchQuery = <<>>
  /\ filterStatus = "all"
  /\ filterPriority = "all"
  /\ filterCategory = "all"

ViewInit ==
  \E n \in 0..MaxViewTodos :
    \/ \E f \in [1..n -> SortChoices] : AtRest(SortCollection(n, f))
    \/ \E f \in [1..n -> StatChoices] : AtRest(StatCollection(n, f))

ViewNext == \E s \in FilterStatuses : SetFilterStatus(s)

\* The order of the list and the statistics, under each status filter.
SpecView == ViewInit /\ [][ViewNext]_vars

FilterInit ==
  \E n \in 0..MaxFilterTodos :
    \E f \in [1..n -> FilterChoices] : AtRest(FilterCollection(n, f))

FilterNext ==
  \/ \E q \in ViewQueries : SetSearchQuery(q)
  \/ \E s \in FilterStatuses : SetFilterStatus(s)
  \/ \E p \in {"all"} \cup ViewPriorities : SetFilterPriority(p)
  \/ \E c \in {"all"} \cup ViewCategories : SetFilterCategory(c)
  \/ ClearFilters

\* The displayed list under every query.
SpecFilter == FilterInit /\ [][FilterNext]_vars

\* ---------------------------------------------------------------- helpers
IdsOf(ts) == {ts[i].id : i \in 1..Len(ts)}

\* The step is the handling of one user event by the handler op.
Handled(op) == nevents' = nevents + 1 /\ cmd'.op = op

TypeOK ==
  /\ pc \in {"mount", "save", "render", "idle", "crashed"}
  /\ Len(todos) <= MaxId + 1
  /\ now >= 1
  /\ nevents \in 0..MaxEvents

\* ================================================================= claims

\* C1: in every reachable state every task of the collection has completedAt
\* present if and only if completed is true.
C1_CompletedAtIffCompleted ==
  \A i \in 1..Len(todos) : (todos[i].completedAt # Absent) <=> todos[i].completed

\* A task that was completed has just been toggled back to active.
C1_Witness ==
  /\ cmd.op = "toggle"
  /\ \E i \in 1..Len(todos) :
       /\ todos[i].id = cmd.id
       /\ prev[i].completed
       /\ ~todos[i].completed

\* C2 (as claimed): once the load effect has run on a slot that is missing,
\* empty or malformed, the collection is empty and no error has surfaced.
C2_InitDegrades ==
  (pc # "mount" /\ slot.kind \in {"null", "empty", "malformed"}) =>
    (todos = <<>> /\ pending = Absent /\ error = FALSE /\ pc # "crashed")

\* C3: in every quiescent state (no effect left to run) the slot holds the
\* serialisation of the whole current collection, in order.
C3_SlotHoldsCollection ==
  pc = "idle" => slot = JsonSlot(Stringify(todos))

\* A delete has emptied the collection and its write is done.
C3_Witness ==
  /\ pc = "idle"
  /\ cmd.op = "delete"
  /\ prev # <<>>
  /\ todos = <<>>

\* C4: an add whose text is empty or only whitespace leaves the collection
\* unchanged and surfaces no error.
C4_BlankAddIsNoOp ==
  [][(Handled("add") /\ Trim(newTodo) = <<>>) =>
       (todos' = todos /\ error' = FALSE)]_vars

\* A whitespace-only text has just been rejected on a non-empty collection.
C4_Witness ==
  /\ cmd = Cmd("add", NoId)
  /\ newTodo # <<>>
  /\ todos # <<>>
  /\ todos = prev

\* C5: an add with non-empty trimmed text appends exactly one task and leaves
\* the existing ones alone; the new task has the trimmed text, an unused
\* identifier, completed false, completedAt absent, createdAt the current
\* time, the draft deadline, priority and category, and priority "medium" and
\* category "personal" when none was chosen since start or the last add.
C5_AddAppends ==
  [][(Handled("add") /\ Trim(newTodo) # <<>>) =>
       /\ Len(todos') = Len(todos) + 1
       /\ SubSeq(todos', 1, Len(todos)) = todos
       /\ LET t == todos'[Len(todos')] IN
            /\ t.text = Trim(newTodo)
            /\ t.id \notin IdsOf(todos)
            /\ t.completed = FALSE
            /\ t.completedAt = Absent
            /\ t.createdAt = now
            /\ t.deadline = deadline
            /\ t.priority = priority
            /\ t.category = category
            /\ ("priority" \notin chosen => t.priority = "medium")
            /\ ("category" \notin chosen => t.category = "personal")]_vars

\* Two tasks were added: the first with a chosen priority, the second, just
\* now, with nothing chosen.
C5_Witness ==
  /\ cmd.op = "add"
  /\ Len(todos) = 2
  /\ todos[2].id = cmd.id
  /\ todos[1].id # 0
  /\ todos[1].priority = "high"
  /\ todos[2].priority = "medium"

\* C6: in every reachable state every task has a text that is non-empty
\* after trimming.
C6_TextNonEmpty ==
  \A i \in 1..Len(todos) : Trim(todos[i].text) # <<>>

\* An edit-save with a blank text has just been refused.
C6_Witness ==
  /\ cmd = Cmd("update", NoId)
  /\ editingTodo # Absent
  /\ todos # <<>>

\* C7: toggling a task twice in succession returns it to its original
\* completed value and completedAt state (absent again for a task that was
\* active) and leaves every other task and the order unchanged.
C7_ToggleTwice ==
  [][(Handled("toggle") /\ cmd.op = "toggle" /\ cmd'.id = cmd.id
        /\ cmd.id \in IdsOf(prev)) =>
       /\ Len(todos') = Len(prev)
       /\ \A i \in 1..Len(prev) :
            IF prev[i].id = cmd.id
              THEN /\ todos'[i].id = prev[i].id
                   /\ todos'[i].completed = prev[i].completed
                   /\ (todos'[i].completedAt = Absent) <=> (prev[i].completedAt = Absent)
                   /\ ~prev[i].completed => todos'[i].completedAt = Absent
              ELSE todos'[i] = prev[i]]_vars

\* The first two events of the run toggled the stored task, which is active
\* again.
C7_Witness ==
  /\ nevents = 2
  /\ cmd = Cmd("toggle", 0)
  /\ Len(todos) = 1
  /\ prev[1].completed
  /\ ~todos[1].completed
  /\ todos[1].completedAt = Absent

\* C8 (as claimed): saving an edit of a task leaves its identifier, createdAt,
\* completed and completedAt as the store held them just before the save,
\* and leaves every other task and the order unchanged, whatever happened
\* between opening the edit and saving it.
C8_SaveKeepsFrame ==
  [][(Handled("update") /\ cmd'.id \in IdsOf(todos)) =>
       /\ Len(todos') = Len(todos)
       /\ \A i \in 1..Len(todos) :
            IF todos[i].id = cmd'.id
              THEN /\ todos'[i].id = todos[i].id
                   /\ todos'[i].createdAt = todos[i].createdAt
                   /\ todos'[i].completed = todos[i].completed
                   /\ todos'[i].completedAt = todos[i].completedAt
              ELSE todos'[i] = todos[i]]_vars

\* The step is an edit-save, a toggle or a delete naming an identifier that
\* no task of the collection has.
UnknownIdCommand ==
  /\ nevents' = nevents + 1
  /\ cmd'.op \in {"update", "toggle", "delete"}
  /\ cmd'.id # NoId
  /\ cmd'.id \notin IdsOf(todos)

C10_DeleteRemovesOne ==
  [][(Handled("delete") /\ cmd'.id \in IdsOf(todos)) =>
       /\ cmd'.id \notin IdsOf(todos')
       /\ \E k \in 1..Len(todos) :
            /\ todos[k].id = cmd'.id
            /\ todos' = SubSeq(todos, 1, k - 1) \o SubSeq(todos, k + 1, Len(todos))]_vars

\* The first of two tasks has just been deleted and the second remains.
C10_Witness ==
  /\ cmd.op = "delete"
  /\ Len(prev) = 2
  /\ prev[1].id = cmd.id
  /\ todos = <<prev[2]>>

\* The identifiers of a collection, in order.
IdSeq(ts) == [i \in 1..Len(ts) |-> ts[i].id]

\* C11: the identifiers of the tasks in the collection are pairwise
\* distinct (the collection starts empty, so it is enough that every step
\* leaves them distinct), and no step changes the identifier of an existing
\* task: the identifiers stay where they are, or one of them is removed.
C11_IdentifiersStable ==
  [][/\ \A i, j \in 1..Len(todos') : i # j => todos'[i].id # todos'[j].id
     /\ \/ /\ Len(todos') >= Len(todos)
           /\ \A i \in 1..Len(todos) : todos'[i].id = todos[i].id
        \/ \E k \in 1..Len(todos) :
             IdSeq(todos') = SubSeq(IdSeq(todos), 1, k - 1)
                               \o SubSeq(IdSeq(todos), k + 1, Len(todos))]_vars

\* Two tasks were added at the same clock value.
C11_Witness ==
  /\ cmd.op = "add"
  /\ Len(todos) = 2
  /\ todos[2].id = cmd.id
  /\ todos[1].createdAt = todos[2].createdAt

\* C12: createdAt of a task never changes while the task is in the
\* collection, whatever the step.
C12_CreatedAtFixed ==
  [][\A i \in 1..Len(todos), j \in 1..Len(todos') :
       todos'[j].id = todos[i].id => todos'[j].createdAt = todos[i].createdAt]_vars

\* A task created earlier has just been completed at a later clock value.
C12_Witness ==
  /\ cmd.op = "toggle"
  /\ \E i \in 1..Len(todos) :
       /\ todos[i].id = cmd.id
       /\ todos[i].completed
       /\ todos[i].completedAt # Some(todos[i].createdAt)

\* The tasks of todos that are active and pass the search, priority and
\* category filters, as positions.
ActiveMatching == {i \in 1..Len(todos) : ~todos[i].completed /\ Matches(todos[i])}

\* a does not come after b in the composite key of the active list.
KeyOrdered(a, b) ==
  LET rank == [high |-> 0, medium |-> 1, low |-> 2] IN
    \/ rank[a.priority] < rank[b.priority]
    \/ /\ rank[a.priority] = rank[b.priority]
       /\ \/ a.deadline # Absent /\ b.deadline = Absent
          \/ /\ a.deadline # Absent /\ b.deadline # Absent
             /\ Val(a.deadline) <= Val(b.deadline)
          \/ /\ a.deadline = Absent /\ b.deadline = Absent
             /\ a.createdAt >= b.createdAt

ExampleA == Todo(1, <<"a">>, FALSE, 1, Absent, Absent, "high", "personal", Absent)

ExampleB == Todo(2, <<"a">>, FALSE, 2, Absent, Some(5), "high", "personal", Absent)

ExampleC == Todo(3, <<"a">>, FALSE, 3, Absent, Some(1), "medium", "personal", Absent)

\* The example tasks in each of their six storage orders.
ExampleOrders ==
  {s \in [1..3 -> {ExampleA, ExampleB, ExampleC}] :
     \A i, j \in 1..3 : i # j => s[i] # s[j]}

\* C13: the displayed active tasks are the active tasks that pass the
\* filters, each once, in ascending order of the composite key: priority
\* rank high, medium, low; within a priority the tasks with a deadline before
\* those without, an earlier deadline before a later one; within a priority
\* and without deadlines the larger createdAt first.  A(high, no deadline),
\* B(high, deadline 5), C(medium, deadline 1) are shown as B, A, C whatever
\* their storage order.
C13_ActiveOrdered ==
  /\ \A i, j \in 1..Len(ActiveTodos) :
       i < j => KeyOrdered(ActiveTodos[i], ActiveTodos[j])
  /\ {ActiveTodos[i] : i \in 1..Len(ActiveTodos)} = {todos[i] : i \in ActiveMatching}
  /\ Len(ActiveTodos) = Cardinality(ActiveMatching)
  /\ (searchQuery = <<>> /\ filterPriority = "all" /\ filterCategory = "all")
       => \A s \in ExampleOrders : ActiveOf(s) = <<ExampleB, ExampleA, ExampleC>>

\* Under "active" three active tasks are shown in an order that is not their storage order,
\* one with a deadline ahead of an older one of its priority without.
C13_Witness ==
  /\ filterStatus = "active"
  /\ Len(ActiveTodos) = 3
  /\ ActiveTodos # SelectSeq(todos, IsActive)
  /\ \E i, j \in 1..3 :
       /\ i < j
       /\ ActiveTodos[i].priority = ActiveTodos[j].priority
       /\ ActiveTodos[i].deadline # Absent
       /\ ActiveTodos[j].deadline = Absent
       /\ ActiveTodos[i].createdAt > ActiveTodos[j].createdAt
  /\ \E i \in 1..2 : ActiveTodos[i].priority # ActiveTodos[i + 1].priority

\* C14: of two displayed active tasks of equal priority that tie on the
\* deadline (neither has one, or both have the same one), the task with the
\* larger createdAt is displayed first.
C14_TieNewestFirst ==
  \A i, j \in 1..Len(ActiveTodos) :
    (/\ i < j
     /\ ActiveTodos[i].priority = ActiveTodos[j].priority
     /\ ActiveTodos[i].deadline = ActiveTodos[j].deadline)
      => ActiveTodos[i].createdAt >= ActiveTodos[j].createdAt

\* t satisfies the four conditions of the query.
Passes(t) ==
  /\ \/ filterStatus = "all"
     \/ filterStatus = "active" /\ ~t.completed
     \/ filterStatus = "completed" /\ t.completed
  /\ \/ searchQuery = <<>>
     \/ \E off \in 0..(Len(t.text) - Len(searchQuery)) :
          \A j \in 1..Len(searchQuery) :
            LowerChar(t.text[off + j]) = LowerChar(searchQuery[j])
  /\ filterPriority = "all" \/ t.priority = filterPriority
  /\ filterCategory = "all" \/ t.category = filterCategory

\* C15: for every collection and every query the displayed tasks are exactly
\* the tasks that satisfy the four conditions (status, case-insensitive
\* search, priority, category): none is missing and none appears twice.
C15_DisplayedExactly ==
  LET passing == {i \in 1..Len(todos) : Passes(todos[i])} IN
    /\ {DisplayedTodos[i] : i \in 1..Len(DisplayedTodos)}
         = {todos[i] : i \in passing}
    /\ Len(DisplayedTodos) = Cardinality(passing)

\* All four filters are set; of two tasks one is displayed, matched by a
\* search text that differs from its text in case.
C15_Witness ==
  /\ searchQuery # <<>>
  /\ filterStatus # "all"
  /\ filterPriority # "all"
  /\ filterCategory # "all"
  /\ Len(todos) = 2
  /\ Len(DisplayedTodos) = 1
  /\ ~Includes(DisplayedTodos[1].text, searchQuery)

\* C16: with the status filter "all" every displayed completed task comes
\* after every displayed active task, and the displayed completed tasks are
\* the completed tasks that pass the filters, in the order of the collection.
C16_CompletedLast ==
  filterStatus = "all" =>
    LET D == DisplayedTodos
        Pos(t) == CHOOSE i \in 1..Len(todos) : todos[i] = t
    IN /\ \A i, j \in 1..Len(D) : (D[i].completed /\ ~D[j].completed) => j < i
       /\ \A i, j \in 1..Len(D) :
            (i < j /\ D[i].completed /\ D[j].completed) => Pos(D[i]) < Pos(D[j])
       /\ {D[i] : i \in {k \in 1..Len(D) : D[k].completed}}
            = {todos[i] : i \in {k \in 1..Len(todos) :
                                   todos[k].completed /\ Matches(todos[k])}}

\* Under "all" an active task is displayed ahead of two completed tasks,
\* which the comparator of the active list would put the other way round.
C16_Witness ==
  /\ filterStatus = "all"
  /\ Len(DisplayedTodos) = 3
  /\ ~DisplayedTodos[1].completed
  /\ DisplayedTodos[2].completed
  /\ DisplayedTodos[3].completed
  /\ Compare(DisplayedTodos[2], DisplayedTodos[3]) > 0

\* t has a deadline that is before the clock, and is not completed.
Overdue(t) == t.deadline # Absent /\ Val(t.deadline) < now /\ ~t.completed

\* C17: a task is treated as overdue, by its item and by overdueCount, if and
\* only if it has a deadline, the deadline is strictly less than the current
\* time and the task is not completed; overdueCount is the number of such
\* tasks of the whole collection, whatever the query.
C17_OverdueExactly ==
  /\ \A i \in 1..Len(todos) : IsOverdue(todos[i]) <=> Overdue(todos[i])
  /\ OverdueCount = Cardinality({i \in 1..Len(todos) : Overdue(todos[i])})

\* The list shows completed tasks only; of three tasks with a deadline the
\* one counted is active and past its deadline, the others are at their
\* deadline or completed.
C17_Witness ==
  /\ filterStatus = "completed"
  /\ Len(todos) = 3
  /\ OverdueCount = 1
  /\ \E i, j, k \in 1..3 :
       /\ IsOverdue(todos[i])
       /\ ~todos[j].completed /\ todos[j].deadline = Some(now)
       /\ todos[k].completed /\ todos[k].deadline = Some(now - 1)

\* C18: completionRate is completedCount / totalTasks * 100 rounded to the
\* nearest integer (a half goes up), taken over the whole collection; it is 0
\* for the empty collection and lies in 0..100; completedCount is the number
\* of tasks with completed = true and never exceeds totalTasks.
C18_CompletionRate ==
  LET n == Len(todos)
      done == Cardinality({i \in 1..Len(todos) : todos[i].completed})
  IN /\ TotalTasks = n
     /\ CompletedCount = done
     /\ CompletedCount <= TotalTasks
     /\ CompletionRate \in 0..100
     /\ n = 0 => CompletionRate = 0
     /\ n > 0 => /\ 200 * done - n < 2 * n * CompletionRate
                 /\ 2 * n * CompletionRate <= 200 * done + n

\* Two of three tasks are completed: the rate 66.67 is shown as 67.
C18_Witness ==
  /\ TotalTasks = 3
  /\ CompletedCount = 2
  /\ CompletionRate = 67
  /\ filterStatus = "active"

\* The completed tasks of todos that have a completedAt, as positions.
Timed == {i \in 1..Len(todos) : todos[i].completed /\ todos[i].completedAt # Absent}

\* Sum of completedAt - createdAt over the positions S.
RECURSIVE Elapsed(_)
Elapsed(S) ==
  IF S = {} THEN 0
  ELSE LET i == CHOOSE x \in S : TRUE IN
         (Val(todos[i].completedAt) - todos[i].createdAt) + Elapsed(S \ {i})

\* Four tasks, one of them completed two hours after its creation at 0.
ExampleStats ==
  <<Todo(1, <<"a">>, TRUE, 0, Some(2 * MsPerHour), Absent, "medium", "personal", Absent),
    Todo(2, <<"a">>, FALSE, 1, Absent, Absent, "medium", "personal", Absent),
    Todo(3, <<"a">>, FALSE, 2, Absent, Absent, "medium", "personal", Absent),
    Todo(4, <<"a">>, FALSE, 3, Absent, Absent, "medium", "personal", Absent)>>

\* C19: avgCompletionTime is the mean of completedAt - createdAt over the
\* completed tasks that have a completedAt, divided by 3 600 000 and rounded
\* to the nearest integer (a half goes up), and 0 when there is no such task;
\* four tasks of which one is completed with createdAt 0 and completedAt
\* 7 200 000 give 2.
C19_AvgCompletionTime ==
  LET d == Cardinality(Timed) * MsPerHour IN
    /\ Timed = {} => AvgCompletionTime = 0
    /\ Timed # {} => /\ 2 * Elapsed(Timed) - d < 2 * d * AvgCompletionTime
                     /\ 2 * d * AvgCompletionTime <= 2 * Elapsed(Timed) + d
    /\ AvgCompletionTimeOf(ExampleStats) = 2

\* Of three tasks two are completed, after half an hour and after an hour:
\* the mean of three quarters of an hour is shown as 1, here while the list
\* shows the completed tasks.
C19_Witness ==
  /\ filterStatus = "completed"
  /\ Len(todos) = 3
  /\ Cardinality(Timed) = 2
  /\ Elapsed(Timed) = 3 * HalfHour
  /\ AvgCompletionTime = 1

\* C20: for every reachable collection, the document the save effect writes
\* for it is read back by the load effect as a collection with the same
\* tasks in the same order, the same field values, and absent optional
\* fields still absent.
C20_RoundTrip ==
  LET written == JsonSlot(Stringify(todos)) IN
    /\ written.kind = "json"
    /\ Len(written.doc) = Len(todos)
    /\ Parse(written.doc) = todos

\* The slot holds two tasks: one completed with notes, one with no optional
\* field at all.
C20_Witness ==
  /\ pc = "idle"
  /\ slot = JsonSlot(Stringify(todos))
  /\ Len(slot.doc) = 2
  /\ \E i \in 1..2 : {"completedAt", "notes"} \subseteq DOMAIN slot.doc[i]
  /\ \E j \in 1..2 : DOMAIN slot.doc[j] = RequiredKeys

\* The component is initialising: the mount effects and the re-render they
\* cause are still running and no user event has been handled.
Initialising ==
  /\ pc \in {"mount", "save", "render"}
  /\ cmd = NoCmd
  /\ nevents = 0

\* C21: during initialisation from a slot that holds a valid non-empty
\* stored collection no step changes the slot: it is never, even
\* transiently, overwritten with the empty collection before the loaded
\* collection is in memory.
C21_InitKeepsSlot ==
  [][(Initialising /\ slot.kind = "json" /\ slot.doc # <<>>) => slot' = slot]_vars

====
